---- MODULE Spec2Model ----
(***************************************************************************)
(* Model of summary.py (ngiab-bench): the environment fingerprinter        *)
(* get_system_info, the directory-name decoder parse_result_dir, the       *)
(* measurement loader load_hyperfine_results and the aggregator main.      *)
(*                                                                         *)
(* Text is modelled at two grains.  Directory names and device paths, on   *)
(* which the code runs regular expressions character by character, are     *)
(* sequences of one-character strings.  The output of an external tool is  *)
(* a sequence of lines, each line a record naming the marker the code      *)
(* looks for in it (`"Model name:" in line`) and the text after the colon. *)
(* Fact values are strings.                                                *)
(***************************************************************************)
EXTENDS Integers, Sequences, FiniteSets, TLC

VARIABLES
    pc,          \* position of the running function
    in_docker,   \* summary.py:17, fixed when the module is loaded
    info,        \* get_system_info: the fact table (a function key -> value)
    device,      \* get_system_info: base_device, << >> before df has run
    invoked,     \* history: the external tools and OS APIs invoked so far
    writers,     \* history: key -> the probes that assigned it, in order
    lscpu_seen,  \* history: the lscpu outcome the CPU probe read
    root,        \* main: what BENCHMARK_DIR is ("missing", "file", "dir")
    listing,     \* main: the entries os.listdir has yielded so far
    loaded,      \* main: mpirun_time and troute_time of the directory read last
    results,     \* main: the list of records
    df,          \* main: the sorted DataFrame rows, << >> before the sort
    out,         \* main: the observable effects, in order
    csv,         \* main: benchmark_summary.csv, [exists, meta, rows]
    name_in,     \* parse_result_dir: the argument
    parsed       \* parse_result_dir: << >> before the call, then the triple

vars == << pc, in_docker, info, device, invoked, writers, lscpu_seen,
           root, listing, loaded, results, df, out, csv, name_in, parsed >>

infoVars == << in_docker, info, device, invoked, writers, lscpu_seen >>
mainVars == << root, listing, loaded, results, df, out, csv >>
parseVars == << name_in, parsed >>

(***************************************************************************)
(* Bounds of the model.                                                    *)
(***************************************************************************)
MaxLscpuLines == 3
MaxDmiLines == 3
MaxNvmeLines == 2
MaxSmartLines == 2
MaxLshwLines == 3
MaxEntries == 3
MaxNameLen == 8

SeqsUpTo(S, n) == UNION { [1..k -> S] : k \in 0..n }

(***************************************************************************)
(* Characters.                                                             *)
(***************************************************************************)
Digits == {"0", "1", "2", "3", "4", "5", "6", "7", "8", "9"}

DigitVal ==
    "0" :> 0 @@ "1" :> 1 @@ "2" :> 2 @@ "3" :> 3 @@ "4" :> 4 @@
    "5" :> 5 @@ "6" :> 6 @@ "7" :> 7 @@ "8" :> 8 @@ "9" :> 9

\* Code points, for Python's string comparison.
Ord ==
    "\n" :> 10 @@ " " :> 32 @@ "/" :> 47 @@
    "0" :> 48 @@ "1" :> 49 @@ "2" :> 50 @@ "3" :> 51 @@ "4" :> 52 @@
    "5" :> 53 @@ "6" :> 54 @@ "7" :> 55 @@ "8" :> 56 @@ "9" :> 57 @@
    "_" :> 95 @@ "a" :> 97 @@ "b" :> 98 @@ "d" :> 100 @@ "e" :> 101 @@
    "l" :> 108 @@ "m" :> 109 @@ "n" :> 110 @@ "o" :> 111 @@ "p" :> 112 @@
    "r" :> 114 @@ "s" :> 115 @@ "v" :> 118 @@ "x" :> 120 @@ "y" :> 121

\* `sub in s` for character sequences.
Contains(s, sub) ==
    \E i \in 0..(Len(s) - Len(sub)) : SubSeq(s, i + 1, i + Len(sub)) = sub

\* The number of trailing characters of s that are digits.
RECURSIVE TrailingDigits(_)
TrailingDigits(s) ==
    IF s # << >> /\ s[Len(s)] \in Digits
    THEN 1 + TrailingDigits(SubSeq(s, 1, Len(s) - 1))
    ELSE 0

\* mpirun_time and troute_time before the loop has assigned them.
NotLoaded == [mpirun |-> [t |-> "none", n |-> 0, s |-> ""],
              troute |-> [t |-> "none", n |-> 0, s |-> ""]]

\* benchmark_summary.csv before main has written it.
NoCsv == [exists |-> FALSE, meta |-> FALSE, rows |-> << >>]

(***************************************************************************)
(* The fact table and the bookkeeping of one probe.  A probe state is      *)
(* [info, assigned, raised]: the table, the keys the probe has assigned    *)
(* and whether an exception left its try block.                            *)
(***************************************************************************)
NoFacts == [k \in {} |-> ""]

Has(k, table) == k \in DOMAIN table

Begin(table) == [info |-> table, assigned |-> {}, raised |-> FALSE]

\* info[k] = v
Put(s, k, v) ==
    [s EXCEPT !.info = [x \in (DOMAIN s.info) \cup {k} |->
                            IF x = k THEN v ELSE s.info[x]],
              !.assigned = @ \cup {k}]

Raise(s) == [s EXCEPT !.raised = TRUE]

\* The history of assignments: probe p assigned the keys ks.
Wrote(w, p, ks) ==
    [k \in (DOMAIN w) \cup ks |->
        IF k \in ks
        THEN (IF k \in DOMAIN w THEN Append(w[k], p) ELSE << p >>)
        ELSE w[k]]

(***************************************************************************)
(* get_system_info, CPU domain (summary.py:46-64).                         *)
(***************************************************************************)
Line(f, v) == [field |-> f, value |-> v]

CacheKey ==
    "L1d cache:" :> "L1d Cache" @@ "L1i cache:" :> "L1i Cache" @@
    "L2 cache:" :> "L2 Cache" @@ "L3 cache:" :> "L3 Cache"

\* float(text): the texts float() accepts, in tenths of a MHz; any other
\* text raises ValueError.
FloatTenths == "3400.0" :> 34000 @@ "2399.6" :> 23996 @@ "800.5" :> 8005

\* f"{x:.0f}": to the nearest integer, a tie to the even one.
RoundTenths(x) ==
    LET q == x \div 10
        r == x % 10
    IN  IF r < 5 THEN q
        ELSE IF r > 5 THEN q + 1
        ELSE IF q % 2 = 0 THEN q ELSE q + 1

FormatMHz(text) == ToString(RoundTenths(FloatTenths[text])) \o " MHz"

\* The loop over the lines of lscpu's output; a value float() rejects
\* leaves the loop and the try block.
RECURSIVE ParseLscpu(_, _)
ParseLscpu(lines, s) ==
    IF lines = << >> THEN s
    ELSE LET line == Head(lines)
             rest == Tail(lines)
         IN  IF line.field = "Model name:"
             THEN ParseLscpu(rest, Put(s, "CPU Model", line.value))
             ELSE IF line.field = "CPU MHz:"
             THEN IF line.value \in DOMAIN FloatTenths
                  THEN ParseLscpu(rest, Put(s, "CPU Clock", FormatMHz(line.value)))
                  ELSE Raise(s)
             ELSE IF line.field \in DOMAIN CacheKey
             THEN ParseLscpu(rest, Put(s, CacheKey[line.field], line.value))
             ELSE ParseLscpu(rest, s)

\* The try block of the CPU probe: check_output raises when lscpu is absent
\* or exits non-zero.
RunLscpu(o, table) ==
    IF o.ok THEN ParseLscpu(o.lines, Begin(table)) ELSE Raise(Begin(table))

\* platform.processor() or "Unknown"
ProcessorOrUnknown(p) == IF p # "" THEN p ELSE "Unknown"

LscpuLineSet ==
    { Line("Model name:", "Xeon E5"), Line("CPU MHz:", "2399.6"),
      Line("CPU MHz:", "2400,000"), Line("L1d cache:", "32K"),
      Line("L1i cache:", "32K"), Line("L2 cache:", "1M"),
      Line("L3 cache:", "8M"), Line("Vendor ID:", "GenuineIntel") }

Failed == [ok |-> FALSE, lines |-> << >>]
Output(ls) == [ok |-> TRUE, lines |-> ls]

LscpuOutcomes ==
    {Failed} \cup { Output(ls) : ls \in SeqsUpTo(LscpuLineSet, MaxLscpuLines) }

LscpuSample == { Failed, Output(<< Line("Model name:", "Xeon E5") >>) }

ProcessorNames == {"", "x86_64"}

ProbeLscpu(outs) ==
    /\ pc = "lscpu"
    /\ \E o \in outs, p \in ProcessorNames :
         LET s == RunLscpu(o, info)
         IN  /\ lscpu_seen' = o
             /\ IF s.raised
                THEN /\ info' = Put(s, "CPU Model", ProcessorOrUnknown(p)).info
                     /\ invoked' = invoked \cup {"lscpu", "platform.processor"}
                     /\ writers' = Wrote(Wrote(writers, "lscpu", s.assigned),
                                         "platform.processor", {"CPU Model"})
                ELSE /\ info' = s.info
                     /\ invoked' = invoked \cup {"lscpu"}
                     /\ writers' = Wrote(writers, "lscpu", s.assigned)
    /\ pc' = "psutil"
    /\ UNCHANGED << in_docker, device, mainVars, parseVars >>

(***************************************************************************)
(* CPU counts and memory total (summary.py:66-71), OS (summary.py:106).    *)
(***************************************************************************)
PsutilFacts ==
    /\ pc = "psutil"
    /\ \E cores \in {"4"}, threads \in {"8"}, total \in {"15.6 GB"} :
         info' = Put(Put(Put(Begin(info), "CPU Cores", cores),
                         "CPU Threads", threads), "Memory Total", total).info
    /\ invoked' = invoked \cup {"psutil"}
    /\ writers' = Wrote(writers, "psutil", {"CPU Cores", "CPU Threads", "Memory Total"})
    /\ pc' = "dmidecode"
    /\ UNCHANGED << in_docker, device, lscpu_seen, mainVars, parseVars >>

OsIdentity ==
    /\ pc = "os"
    /\ \E os \in {"Linux 6.8.0"} : info' = Put(Begin(info), "OS", os).info
    /\ invoked' = invoked \cup {"platform"}
    /\ writers' = Wrote(writers, "platform", {"OS"})
    /\ pc' = "df"
    /\ UNCHANGED << in_docker, device, lscpu_seen, mainVars, parseVars >>

(***************************************************************************)
(* Memory type, speed and configuration (summary.py:73-103).               *)
(***************************************************************************)
HasDDR(v) == v \in {"DDR4", "DDR5"}
HasMTs(v) == v \in {"3200 MT/s", "2666 MT/s"}
HasGBorMB(v) == v \in {"16 GB", "8 GB"}

\* The loop over dmidecode's lines: the three lists it fills.
RECURSIVE ParseDmidecode(_, _)
ParseDmidecode(lines, acc) ==
    IF lines = << >> THEN acc
    ELSE LET line == Head(lines)
             rest == Tail(lines)
         IN  IF line.field = "Type:" /\ HasDDR(line.value)
             THEN ParseDmidecode(rest, [acc EXCEPT !.types = Append(@, line.value)])
             ELSE IF line.field = "Speed:" /\ HasMTs(line.value)
             THEN ParseDmidecode(rest, [acc EXCEPT !.speeds = Append(@, line.value)])
             ELSE IF line.field \in {"Size:", "Volatile Size:"} /\ HasGBorMB(line.value)
             THEN IF line.field = "Volatile Size:"
                  THEN ParseDmidecode(rest, acc)
                  ELSE ParseDmidecode(rest, [acc EXCEPT !.sizes = Append(@, line.value)])
             ELSE ParseDmidecode(rest, acc)

Range(seq) == { seq[i] : i \in 1..Len(seq) }

\* ", ".join(seq)
RECURSIVE JoinComma(_)
JoinComma(seq) ==
    IF seq = << >> THEN ""
    ELSE IF Len(seq) = 1 THEN seq[1]
    ELSE seq[1] \o ", " \o JoinComma(Tail(seq))

\* The orders in which Python may iterate set(seq): unspecified.
Orders(S) ==
    { q \in [1..Cardinality(S) -> S] : \A x \in S : \E i \in DOMAIN q : q[i] = x }

\* seq[0] if len(set(seq)) == 1 else ", ".join(set(seq)): the possible texts.
OneOrJoined(seq) ==
    IF Cardinality(Range(seq)) = 1 THEN {seq[1]}
    ELSE { JoinComma(q) : q \in Orders(Range(seq)) }

\* f"{len(sizes)}x{sizes[0]}" if len(set(sizes)) == 1 else ", ".join(sizes)
MemoryConfig(sizes) ==
    IF Cardinality(Range(sizes)) = 1
    THEN ToString(Len(sizes)) \o "x" \o sizes[1]
    ELSE JoinComma(sizes)

DmiLineSet ==
    { Line("Type:", "DDR4"), Line("Type:", "DDR5"), Line("Type:", "Unknown"),
      Line("Speed:", "3200 MT/s"), Line("Size:", "16 GB"),
      Line("Volatile Size:", "16 GB") }

DmiOutcomes ==
    {Failed} \cup { Output(ls) : ls \in SeqsUpTo(DmiLineSet, MaxDmiLines) }

DmiSample ==
    { Failed, Output(<< Line("Type:", "DDR4"), Line("Speed:", "3200 MT/s") >>) }

ProbeDmidecode(outs) ==
    /\ pc = "dmidecode"
    /\ IF in_docker
       THEN UNCHANGED << info, invoked, writers >>
       ELSE \E o \in outs :
              LET acc == ParseDmidecode(o.lines,
                             [types |-> << >>, speeds |-> << >>, sizes |-> << >>])
              IN  /\ invoked' = invoked \cup {"dmidecode"}
                  /\ IF o.ok /\ acc.types # << >> /\ acc.speeds # << >>
                     THEN \E t \in OneOrJoined(acc.types), sp \in OneOrJoined(acc.speeds) :
                            LET s1 == Put(Put(Begin(info), "Memory Type", t),
                                          "Memory Speed", sp)
                                s2 == IF acc.sizes # << >>
                                      THEN Put(s1, "Memory Config", MemoryConfig(acc.sizes))
                                      ELSE s1
                            IN  /\ info' = s2.info
                                /\ writers' = Wrote(writers, "dmidecode", s2.assigned)
                     ELSE UNCHANGED << info, writers >>
    /\ pc' = "os"
    /\ UNCHANGED << in_docker, device, lscpu_seen, mainVars, parseVars >>

(***************************************************************************)
(* Filesystem and block device of the benchmark root (summary.py:109-123)  *)
(* and the sentinel of the enclosing try (summary.py:205-206).             *)
(***************************************************************************)
\* re.sub(r"\d+$", "", s)
StripDigits(s) == SubSeq(s, 1, Len(s) - TrailingDigits(s))

\* re.sub(r"p$", "", s)
StripP(s) ==
    IF s # << >> /\ s[Len(s)] = "p" THEN SubSeq(s, 1, Len(s) - 1) ELSE s

\* re.sub(r"n\d+$", "", s)
StripN(s) ==
    LET d == TrailingDigits(s)
    IN  IF d >= 1 /\ Len(s) > d /\ s[Len(s) - d] = "n"
        THEN SubSeq(s, 1, Len(s) - d - 1)
        ELSE s

BaseDevice(dev) == StripN(StripP(StripDigits(dev)))

IsDevPath(dev) == Contains(dev, << "/", "d", "e", "v", "/" >>)
IsNvme(base) == Contains(base, << "n", "v", "m", "e" >>)

DevNvme == << "/", "d", "e", "v", "/", "n", "v", "m", "e", "0", "n", "1", "p", "2" >>
DevSda == << "/", "d", "e", "v", "/", "s", "d", "a", "1" >>
DevOverlay == << "o", "v", "e", "r", "l", "a", "y" >>

\* A df outcome: the command failed, printed no data row (the index [1] or
\* [0] raises IndexError), or printed a row with the wanted column.
DfOutcomes ==
    { [kind |-> "fail", col |-> << >>], [kind |-> "norow", col |-> << >>] }
    \cup { [kind |-> "row", col |-> d] : d \in {DevNvme, DevSda, DevOverlay} }

DfTOutcomes ==
    { [kind |-> "fail", col |-> ""], [kind |-> "norow", col |-> ""],
      [kind |-> "row", col |-> "ext4"] }

\* Lines 111-116: df, then df -T, then info["Filesystem"].
FilesystemLookup(o, t, table) ==
    IF o.kind # "row" \/ t.kind # "row" THEN Raise(Begin(table))
    ELSE Put(Begin(table), "Filesystem", t.col)

\* A variant that swallows the failure without recording it.
DriveSentinel_Silent(s) == s

\* except: info["Drive"] = "Unknown"
DriveSentinel(s) == IF s.raised THEN Put(s, "Drive", "Unknown") ELSE s

ProbeDf ==
    /\ pc = "df"
    /\ \E o \in DfOutcomes, t \in DfTOutcomes :
         LET s == DriveSentinel(FilesystemLookup(o, t, info))
         IN  /\ info' = s.info
             /\ writers' = Wrote(writers, "df", s.assigned)
             /\ invoked' = invoked \cup
                    (IF o.kind = "row" THEN {"df", "df -T"} ELSE {"df"})
             /\ IF ~s.raised /\ IsDevPath(o.col)
                THEN device' = BaseDevice(o.col) /\ pc' = "nvme"
                ELSE device' = device /\ pc' = "docker"
    /\ UNCHANGED << in_docker, lscpu_seen, mainVars, parseVars >>

(***************************************************************************)
(* Drive probe chain (summary.py:125-204).                                 *)
(***************************************************************************)
\* A line of `nvme list`: whether it mentions the device, the columns
\* re.split(r"\s{2,}") yields and the capacities re.findall yields.
NvmeLine(m, ps, cs) == [mentions |-> m, parts |-> ps, caps |-> cs]

RECURSIVE ParseNvme(_, _)
ParseNvme(lines, s) ==
    IF lines = << >> THEN s
    ELSE LET line == Head(lines)
         IN  IF line.mentions /\ Len(line.parts) >= 4
             THEN LET s3 == Put(Put(Put(s, "Drive Model", line.parts[4]),
                                    "Drive Type", "NVMe SSD"),
                                "Drive Interface", "NVMe")
                  IN  IF line.caps = << >> THEN Raise(s3)
                      ELSE Put(s3, "Drive Capacity", line.caps[Len(line.caps)])
             ELSE ParseNvme(Tail(lines), s)

NvmeLineSet ==
    { NvmeLine(FALSE, << "Node", "SN", "Model", "Namespace" >>, << >>),
      NvmeLine(TRUE, << "x", "x", "x" >>, << >>),
      NvmeLine(TRUE, << "x", "x", "x", "Samsung SSD 980" >>, << >>),
      NvmeLine(TRUE, << "x", "x", "x", "Samsung SSD 980", "1" >>,
               << "250.11 GB", "500.11 GB" >>) }

NvmeOutcomes ==
    {Failed} \cup { Output(ls) : ls \in SeqsUpTo(NvmeLineSet, MaxNvmeLines) }

ProbeNvme ==
    /\ pc = "nvme"
    /\ IF IsNvme(device)
       THEN \E o \in NvmeOutcomes :
              LET s == IF o.ok THEN ParseNvme(o.lines, Begin(info))
                       ELSE Raise(Begin(info))
              IN  /\ info' = s.info
                  /\ writers' = Wrote(writers, "nvme", s.assigned)
                  /\ invoked' = invoked \cup {"nvme"}
       ELSE UNCHANGED << info, writers, invoked >>
    /\ pc' = "smartctl"
    /\ UNCHANGED << in_docker, device, lscpu_seen, mainVars, parseVars >>

\* A variant that forgets the execution context.
HostFallback_AnyContext(table, docker) == ~Has("Drive Model", table)

\* if "Drive Model" not in info and not in_docker
HostFallback(table, docker) == ~Has("Drive Model", table) /\ ~docker

RECURSIVE ParseSmartctl(_, _)
ParseSmartctl(lines, s) ==
    IF lines = << >> THEN s
    ELSE LET line == Head(lines)
             rest == Tail(lines)
         IN  IF line.field \in {"Device Model:", "Model Number:"}
             THEN ParseSmartctl(rest, Put(s, "Drive Model", line.value))
             ELSE IF line.field = "Rotation Rate:"
             THEN IF line.value = "Solid State Device"
                  THEN ParseSmartctl(rest, Put(s, "Drive Type", "SSD"))
                  ELSE ParseSmartctl(rest,
                           Put(s, "Drive Type", "HDD (" \o line.value \o ")"))
             ELSE ParseSmartctl(rest, s)

SmartLineSet ==
    { Line("Device Model:", "WDC WD10EZEX"), Line("Rotation Rate:", "Solid State Device"),
      Line("Rotation Rate:", "7200 rpm"), Line("Serial Number:", "S123") }

SmartOutcomes ==
    {Failed} \cup { Output(ls) : ls \in SeqsUpTo(SmartLineSet, MaxSmartLines) }

\* Method 1, or the skip of methods 1 and 2.
ProbeSmartctl ==
    /\ pc = "smartctl"
    /\ IF HostFallback(info, in_docker)
       THEN /\ \E o \in SmartOutcomes :
                 LET s == IF o.ok THEN ParseSmartctl(o.lines, Begin(info))
                          ELSE Raise(Begin(info))
                 IN  /\ info' = s.info
                     /\ writers' = Wrote(writers, "smartctl", s.assigned)
            /\ invoked' = invoked \cup {"smartctl"}
            /\ pc' = "lshw"
       ELSE /\ UNCHANGED << info, writers, invoked >>
            /\ pc' = "lsblk"
    /\ UNCHANGED << in_docker, device, lscpu_seen, mainVars, parseVars >>

\* A line of lshw: its marker, the text after it, whether it holds the
\* device's name.
LshwLine(f, v, m) == [field |-> f, value |-> v, mentions |-> m]

\* The loop of method 2; fin is finish_up.
RECURSIVE ParseLshw(_, _, _)
ParseLshw(lines, s, fin) ==
    IF lines = << >> THEN s
    ELSE LET line == Head(lines)
             rest == Tail(lines)
             s1 == IF line.field = "product:"
                   THEN Put(s, "Drive Model", line.value)
                   ELSE IF line.field = "vendor:" /\ Has("Drive Model", s.info)
                   THEN Put(s, "Drive Vendor", line.value)
                   ELSE IF line.field = "size:" /\ Has("Drive Model", s.info)
                   THEN Put(s, "Drive Size", line.value)
                   ELSE s
         IN  IF fin /\ line.field = "*-"
             THEN s1
             ELSE IF line.field = "logical name:" /\ line.mentions
             THEN ParseLshw(rest, s1, TRUE)
             ELSE ParseLshw(rest, s1, fin)

LshwLineSet ==
    { LshwLine("product:", "Samsung SSD 870", FALSE), LshwLine("vendor:", "Samsung", FALSE),
      LshwLine("size:", "465GiB", FALSE), LshwLine("logical name:", "/dev/sda", TRUE),
      LshwLine("*-", "disk", FALSE), LshwLine("*-namespace", "0", FALSE) }

LshwOutcomes ==
    {Failed} \cup { Output(ls) : ls \in SeqsUpTo(LshwLineSet, MaxLshwLines) }

ProbeLshw ==
    /\ pc = "lshw"
    /\ \E o \in LshwOutcomes :
         LET s == IF o.ok THEN ParseLshw(o.lines, Begin(info), FALSE)
                  ELSE Raise(Begin(info))
         IN  /\ info' = s.info
             /\ writers' = Wrote(writers, "lshw", s.assigned)
    /\ invoked' = invoked \cup {"lshw"}
    /\ pc' = "lsblk"
    /\ UNCHANGED << in_docker, device, lscpu_seen, mainVars, parseVars >>

\* " ".join(seq)
RECURSIVE JoinSpace(_)
JoinSpace(seq) ==
    IF seq = << >> THEN ""
    ELSE IF Len(seq) = 1 THEN seq[1]
    ELSE seq[1] \o " " \o JoinSpace(Tail(seq))

\* Method 3, on the whitespace-separated words of lsblk's output.
ParseLsblk(parts, s) ==
    IF Len(parts) >= 2
    THEN LET n == Len(parts)
             s1 == Put(s, "Drive Model",
                       IF n > 3 THEN JoinSpace(SubSeq(parts, 2, n - 2)) ELSE parts[2])
             s2 == IF n >= 3
                   THEN Put(s1, "Drive Type", IF parts[n - 1] = "1" THEN "HDD" ELSE "SSD")
                   ELSE s1
         IN  IF n >= 4 THEN Put(s2, "Drive Capacity", parts[n]) ELSE s2
    ELSE s

LsblkOutcomes ==
    {Failed} \cup
    { Output(ws) : ws \in { << >>, << "sda" >>, << "sda", "QEMU" >>,
                            << "sda", "0", "500G" >>,
                            << "sda", "Samsung", "0", "500G" >>,
                            << "sda", "WDC", "WD10EZEX", "1", "1T" >> } }

ProbeLsblk ==
    /\ pc = "lsblk"
    /\ IF ~Has("Drive Model", info)
       THEN \E o \in LsblkOutcomes :
              LET s == IF o.ok THEN ParseLsblk(o.lines, Begin(info))
                       ELSE Raise(Begin(info))
              IN  /\ info' = s.info
                  /\ writers' = Wrote(writers, "lsblk", s.assigned)
                  /\ invoked' = invoked \cup {"lsblk"}
       ELSE UNCHANGED << info, writers, invoked >>
    /\ pc' = "docker"
    /\ UNCHANGED << in_docker, device, lscpu_seen, mainVars, parseVars >>

(***************************************************************************)
(* Container runtime identity (summary.py:208-228).                        *)
(***************************************************************************)
DockerFacts(version_ok, hostname_ok, docker, table) ==
    IF version_ok
    THEN LET s1 == Put(Begin(table), "Docker", "Docker version 27.0.3")
         IN  IF docker
             THEN LET s2 == Put(s1, "Environment", "Inside Docker Container")
                  IN  IF hostname_ok THEN Put(s2, "Container Hostname", "bench01")
                      ELSE s2
             ELSE Put(s1, "Environment", "Host System")
    ELSE Put(Put(Begin(table), "Docker", "Not detected"), "Environment",
             IF docker THEN "Docker Container" ELSE "Host System")

ProbeDocker ==
    /\ pc = "docker"
    /\ \E v \in BOOLEAN, h \in BOOLEAN :
         LET s == DockerFacts(v, h, in_docker, info)
         IN  /\ info' = s.info
             /\ writers' = Wrote(writers, "docker", s.assigned)
             /\ invoked' = invoked \cup
                    (IF v /\ in_docker THEN {"docker", "hostname"} ELSE {"docker"})
    /\ pc' = "return"
    /\ UNCHANGED << in_docker, device, lscpu_seen, mainVars, parseVars >>

ReturnInfo ==
    /\ pc = "return"
    /\ pc' = "done"
    /\ UNCHANGED << infoVars, mainVars, parseVars >>

InitInfo ==
    /\ pc = "lscpu"
    /\ in_docker \in BOOLEAN
    /\ info = NoFacts
    /\ device = << >>
    /\ invoked = {}
    /\ writers = NoFacts
    /\ lscpu_seen = Failed
    /\ root = "dir"
    /\ listing = << >>
    /\ loaded = NotLoaded
    /\ results = << >>
    /\ df = << >>
    /\ out = << >>
    /\ csv = NoCsv
    /\ name_in = << >>
    /\ parsed = << >>

NextInfo ==
    \/ ProbeLscpu(LscpuSample)
    \/ PsutilFacts
    \/ ProbeDmidecode(DmiOutcomes)
    \/ OsIdentity
    \/ ProbeDf
    \/ ProbeNvme
    \/ ProbeSmartctl
    \/ ProbeLshw
    \/ ProbeLsblk
    \/ ProbeDocker
    \/ ReturnInfo

\* get_system_info end to end, over every drive and memory outcome.
SpecInfo == InitInfo /\ [][NextInfo]_vars

NextCpu ==
    \/ ProbeLscpu(LscpuOutcomes)
    \/ PsutilFacts
    \/ ProbeDmidecode(DmiSample)
    \/ OsIdentity
    \/ ProbeDf
    \/ ProbeNvme
    \/ ProbeSmartctl
    \/ ProbeLshw
    \/ ProbeLsblk
    \/ ProbeDocker
    \/ ReturnInfo

\* get_system_info end to end, over every lscpu outcome.
SpecCpu == InitInfo /\ [][NextCpu]_vars

(***************************************************************************)
(* parse_result_dir (summary.py:24-29).                                    *)
(***************************************************************************)
\* Python's None inside a triple of character sequences.
None == << "None" >>
NoMatch == << None, None, None >>

Units == {"d", "m", "y"}

\* The number of leading characters of s that are digits: what \d+ takes.
RECURSIVE LeadingDigits(_)
LeadingDigits(s) ==
    IF s # << >> /\ Head(s) \in Digits THEN 1 + LeadingDigits(Tail(s)) ELSE 0

\* The number of leading characters of s that are no line break: what .+
\* takes, "." matching any character but "\n".
RECURSIVE LeadingDots(_)
LeadingDots(s) ==
    IF s # << >> /\ Head(s) # "\n" THEN 1 + LeadingDots(Tail(s)) ELSE 0

Drop(s, n) == SubSeq(s, n + 1, Len(s))

\* re.match(r"(\d+[dmy])_(\d+)_(.+)", dirname): anchored at the start
\* only; match.groups() or (None, None, None).
parse_result_dir(dirname) ==
    LET d1 == LeadingDigits(dirname)
        r1 == Drop(dirname, d1)
        r2 == Drop(r1, 2)
        d2 == LeadingDigits(r2)
        r3 == Drop(r2, d2)
        g == LeadingDots(Drop(r3, 1))
    IN  IF /\ d1 >= 1 /\ Len(r1) >= 2 /\ r1[1] \in Units /\ r1[2] = "_"
           /\ d2 >= 1 /\ Len(r3) >= 1 /\ r3[1] = "_"
           /\ g >= 1
        THEN << SubSeq(dirname, 1, d1 + 1), SubSeq(r2, 1, d2),
                SubSeq(r3, 2, 1 + g) >>
        ELSE NoMatch

\* Truth value of a str or None.
TruthyText(x) == x # None /\ x # << >>

\* int(ops) for a run of ASCII digits.
RECURSIVE ParseInt(_)
ParseInt(ds) ==
    IF ds = << >> THEN 0
    ELSE 10 * ParseInt(SubSeq(ds, 1, Len(ds) - 1)) + DigitVal[ds[Len(ds)]]

NameChars == {"1", "d", "_", " ", "\n"}

InitParse ==
    /\ pc = "parse"
    /\ name_in \in SeqsUpTo(NameChars, MaxNameLen)
    /\ parsed = << >>
    /\ in_docker = FALSE
    /\ info = NoFacts
    /\ device = << >>
    /\ invoked = {}
    /\ writers = NoFacts
    /\ lscpu_seen = Failed
    /\ root = "dir"
    /\ listing = << >>
    /\ loaded = NotLoaded
    /\ results = << >>
    /\ df = << >>
    /\ out = << >>
    /\ csv = NoCsv

CallParse ==
    /\ pc = "parse"
    /\ parsed' = parse_result_dir(name_in)
    /\ pc' = "parsed"
    /\ UNCHANGED << name_in, infoVars, mainVars >>

NextParse == CallParse

\* parse_result_dir applied to every name over NameChars.
SpecParse == InitParse /\ [][NextParse]_vars

(***************************************************************************)
(* load_hyperfine_results (summary.py:32-39).  A JSON value is a record    *)
(* [t, n, s]: None, a number (n, in units of 0.0001 s) or a string (s).    *)
(***************************************************************************)
Nothing == [t |-> "none", n |-> 0, s |-> ""]
Num(x) == [t |-> "num", n |-> x, s |-> ""]
Str(x) == [t |-> "str", n |-> 0, s |-> x]

\* What a measurement file can be: absent, not JSON, JSON with no "results"
\* key, with an empty results list, with a first result that has no "mean",
\* or with a first result whose "mean" is the value mean.
File(k, m) == [kind |-> k, mean |-> m]

MeanValues == { Nothing, Num(0), Num(123456), Str("fast") }

FileContents ==
    { File(k, Nothing) :
        k \in {"missing", "malformed", "no_results", "empty_results", "no_mean"} }
    \cup { File("mean", m) : m \in MeanValues }

\* Every exception inside the try is swallowed; a "mean" of any JSON type is
\* returned as it is.
load_hyperfine_results(json_file) ==
    IF json_file.kind = "mean" THEN json_file.mean ELSE Nothing

(***************************************************************************)
(* main: the record of one directory (summary.py:245-259).                 *)
(***************************************************************************)
\* Truth value of a loaded measurement.
Truthy(v) == (v.t = "num" /\ v.n # 0) \/ (v.t = "str" /\ v.s # "")

\* round(x, 3) on units of 0.0001: to the nearest multiple of 10, a tie to
\* the even one.
Round3(x) ==
    LET q == x \div 10
        r == x % 10
    IN  IF r < 5 THEN 10 * q
        ELSE IF r > 5 THEN 10 * (q + 1)
        ELSE IF q % 2 = 0 THEN 10 * q ELSE 10 * (q + 1)

NA == Str("N/A")

\* round(v, 3) raises TypeError for a str.
RoundRaises(v) == v.t # "num"

\* <value> if <all of vs are truthy> else "N/A"; vs are numbers here.
RoundedOrNA(vs, sum) ==
    IF \A i \in DOMAIN vs : Truthy(vs[i]) THEN Num(Round3(sum)) ELSE NA

\* Whether building the dict raises: a truthy measurement that is no number
\* reaches round().
RecordRaises(mpirun_time, troute_time) ==
    \/ Truthy(mpirun_time) /\ RoundRaises(mpirun_time)
    \/ Truthy(troute_time) /\ RoundRaises(troute_time)

BuildRecord(groups, mpirun_time, troute_time) ==
    [ Duration |-> groups[1],
      Operations |-> ParseInt(groups[2]),
      Gage |-> groups[3],
      MPI |-> RoundedOrNA(<< mpirun_time >>, mpirun_time.n),
      Troute |-> RoundedOrNA(<< troute_time >>, troute_time.n),
      Total |-> RoundedOrNA(<< mpirun_time, troute_time >>,
                            mpirun_time.n + troute_time.n) ]

(***************************************************************************)
(* main: the sort (summary.py:265-267).                                    *)
(***************************************************************************)
\* a < b for str: by code point, a proper prefix first.
RECURSIVE StrLess(_, _)
StrLess(a, b) ==
    IF b = << >> THEN FALSE
    ELSE IF a = << >> THEN TRUE
    ELSE IF Ord[Head(a)] # Ord[Head(b)] THEN Ord[Head(a)] < Ord[Head(b)]
    ELSE StrLess(Tail(a), Tail(b))

\* A variant that sorts on the operation count alone.
RowBefore_OpsOnly(a, b) == a.Operations < b.Operations

\* The order of sort_values(["Operations", "Duration"]).
RowBefore(a, b) ==
    \/ a.Operations < b.Operations
    \/ a.Operations = b.Operations /\ StrLess(a.Duration, b.Duration)

\* r put into the sorted rows after every row that is not after it.
RECURSIVE Insert(_, _)
Insert(rows, r) ==
    IF rows = << >> THEN << r >>
    ELSE IF RowBefore(r, Head(rows)) THEN << r >> \o rows
    ELSE << Head(rows) >> \o Insert(Tail(rows), r)

\* DataFrame.sort_values on several columns: a stable sort.
RECURSIVE sort_values(_)
sort_values(rows) ==
    IF rows = << >> THEN << >>
    ELSE Insert(sort_values(SubSeq(rows, 1, Len(rows) - 1)), rows[Len(rows)])

(***************************************************************************)
(* main (summary.py:231-293).                                              *)
(***************************************************************************)
Name10d500 == << "1", "0", "d", "_", "5", "0", "0", "_", "a" >>
Name5d1000 == << "5", "d", "_", "1", "0", "0", "0", "_", "a", " ", "b" >>
Name30d500 == << "3", "0", "d", "_", "5", "0", "0", "_", "a" >>
NameNoOps == << "5", "d", "_", "a" >>
NameBroken == << "1", "d", "_", "1", "_", "a", "\n", "b" >>

DirNames == { Name10d500, Name5d1000, Name30d500, NameNoOps, NameBroken }

Init ==
    /\ pc = "main"
    /\ root \in {"missing", "file", "dir"}
    /\ listing = << >>
    /\ loaded = NotLoaded
    /\ results = << >>
    /\ df = << >>
    /\ out = << >>
    /\ csv = NoCsv
    /\ in_docker = FALSE    \* selects the path of BENCHMARK_DIR only
    /\ info = NoFacts
    /\ device = << >>
    /\ invoked = {}
    /\ writers = NoFacts
    /\ lscpu_seen = Failed
    /\ name_in = << >>
    /\ parsed = << >>

\* Lines 235-239: the existence check, and os.listdir, which raises
\* NotADirectoryError on a path that is no directory.
CheckRoot ==
    /\ pc = "main"
    /\ IF root = "missing"
       THEN out' = Append(out, "print: directory does not exist") /\ pc' = "exit"
       ELSE IF root = "file"
       THEN out' = out /\ pc' = "crashed"
       ELSE out' = out /\ pc' = "walk"
    /\ UNCHANGED << root, listing, loaded, results, df, csv, infoVars, parseVars >>

\* One turn of the loop over os.listdir: an entry not seen before, a
\* directory or not, with its two measurement files.
WalkEntry ==
    /\ pc = "walk"
    /\ Len(listing) < MaxEntries
    /\ \E dirname \in DirNames \ { listing[i].name : i \in DOMAIN listing },
          is_dir \in BOOLEAN, mpirun \in FileContents, troute \in FileContents :
         LET groups == parse_result_dir(dirname)
             mpirun_time == load_hyperfine_results(mpirun)
             troute_time == load_hyperfine_results(troute)
         IN  /\ listing' = Append(listing, [name |-> dirname, is_dir |-> is_dir])
             /\ IF is_dir /\ TruthyText(groups[1]) /\ TruthyText(groups[2])
                THEN /\ loaded' = [mpirun |-> mpirun_time, troute |-> troute_time]
                     /\ IF RecordRaises(mpirun_time, troute_time)
                        THEN results' = results /\ pc' = "crashed"
                        ELSE /\ results' = Append(results,
                                     BuildRecord(groups, mpirun_time, troute_time))
                             /\ pc' = "walk"
                ELSE UNCHANGED << loaded, results, pc >>
    /\ UNCHANGED << root, df, out, csv, infoVars, parseVars >>

\* The listing is exhausted.
EndWalk ==
    /\ pc = "walk"
    /\ pc' = "collected"
    /\ UNCHANGED << mainVars, infoVars, parseVars >>

\* Lines 261-263.
NoResults ==
    /\ pc = "collected"
    /\ results = << >>
    /\ out' = Append(out, "print: no benchmark results found")
    /\ pc' = "exit"
    /\ UNCHANGED << root, listing, loaded, results, df, csv, infoVars, parseVars >>

\* Lines 265-267.
SortRecords ==
    /\ pc = "collected"
    /\ results # << >>
    /\ df' = sort_values(results)
    /\ pc' = "fingerprint"
    /\ UNCHANGED << root, listing, loaded, results, out, csv, infoVars, parseVars >>

\* Line 270: the call of get_system_info, whose body SpecInfo explores; here
\* only that it was made.
Fingerprint ==
    /\ pc = "fingerprint"
    /\ out' = Append(out, "get_system_info")
    /\ pc' = "report"
    /\ UNCHANGED << root, listing, loaded, results, df, csv, infoVars, parseVars >>

\* Lines 272-279.
PrintReport ==
    /\ pc = "report"
    /\ out' = Append(out, "print: report")
    /\ pc' = "csv"
    /\ UNCHANGED << root, listing, loaded, results, df, csv, infoVars, parseVars >>

\* Lines 281-293: the metadata comments, then the rows appended.
WriteCsv ==
    /\ pc = "csv"
    /\ csv' = [exists |-> TRUE, meta |-> TRUE, rows |-> df]
    /\ out' = Append(out, "print: csv saved")
    /\ pc' = "exit"
    /\ UNCHANGED << root, listing, loaded, results, df, infoVars, parseVars >>

Next ==
    \/ CheckRoot
    \/ WalkEntry
    \/ EndWalk
    \/ NoResults
    \/ SortRecords
    \/ Fingerprint
    \/ PrintReport
    \/ WriteCsv

\* main over every results root of at most MaxEntries entries.
Spec == Init /\ [][Next]_vars

(***************************************************************************)
(* Properties of get_system_info.                                          *)
(***************************************************************************)
DriveProbes == {"nvme", "smartctl", "lshw", "lsblk"}
DriveFacts == {"Drive Model", "Drive Type", "Drive Capacity"}
MemoryFacts == {"Memory Type", "Memory Speed", "Memory Config"}

\* The probes of the drive chain that assigned k, in order.
DriveWriters(k) ==
    IF k \in DOMAIN writers
    THEN SelectSeq(writers[k], LAMBDA p : p \in DriveProbes)
    ELSE << >>

\* C1: no fact key is assigned by two probes of the drive chain: a key an
\* earlier probe set is never assigned again by a later one.
C1_DrivePrecedence ==
    \A k \in DOMAIN writers : Len(DriveWriters(k)) <= 1

NoDriveFacts == \A k \in DriveFacts : ~Has(k, info)

\* C2 (as claimed): the returned table holds "Drive" = "Unknown" exactly
\* when no Drive Model, Drive Type or Drive Capacity was determined.
C2_SentinelIffNoDriveFacts ==
    pc = "done" =>
        ((Has("Drive", info) /\ info["Drive"] = "Unknown") <=> NoDriveFacts)

\* C2 (amended): the returned table holds "Drive" = "Unknown" exactly when
\* the filesystem lookup (df, df -T) failed, that is when "Filesystem" is
\* unset; the sentinel never stands beside a determined drive fact.
C2_SentinelIffLookupFailed ==
    pc = "done" =>
        /\ Has("Drive", info) <=> ~Has("Filesystem", info)
        /\ Has("Drive", info) => (info["Drive"] = "Unknown" /\ NoDriveFacts)

\* The lookup succeeded, every drive probe that ran came back empty, and
\* the table holds neither a drive fact nor the sentinel.
C2_Witness ==
    /\ pc = "done"
    /\ Has("Filesystem", info)
    /\ {"smartctl", "lshw", "lsblk"} \subseteq invoked
    /\ NoDriveFacts
    /\ ~Has("Drive", info)

\* C9 (as claimed): inside a container no host-only probe is invoked, the
\* generic block-device lister included, so drive facts come from the NVMe
\* lister alone and no memory detail is present.
C9_NoHostProbesInContainer ==
    in_docker =>
        /\ invoked \cap {"dmidecode", "smartctl", "lshw", "lsblk"} = {}
        /\ \A k \in DriveFacts : Range(DriveWriters(k)) \subseteq {"nvme"}
        /\ \A k \in MemoryFacts : ~Has(k, info)

\* C9 (amended): inside a container neither dmidecode nor smartctl nor lshw
\* is invoked and no memory detail is present; lsblk still runs when
\* "Drive Model" is unset, so drive facts come from the NVMe lister or lsblk.
C9_ContainerGating ==
    in_docker =>
        /\ invoked \cap {"dmidecode", "smartctl", "lshw"} = {}
        /\ \A k \in DriveFacts : Range(DriveWriters(k)) \subseteq {"nvme", "lsblk"}
        /\ \A k \in MemoryFacts : ~Has(k, info)
        /\ (pc = "done" /\ device # << >> /\ ~("nvme" \in Range(DriveWriters("Drive Model"))))
               => "lsblk" \in invoked

\* Inside a container lsblk ran and supplied the drive model.
C9_Witness ==
    /\ in_docker
    /\ pc = "done"
    /\ "lsblk" \in invoked
    /\ Has("Drive Model", info)
    /\ DriveWriters("Drive Model") = << "lsblk" >>

\* The key a well-formed lscpu line fills and the value parsed from it.
WellFormed(line) ==
    \/ line.field = "Model name:"
    \/ line.field \in DOMAIN CacheKey
    \/ line.field = "CPU MHz:" /\ line.value \in DOMAIN FloatTenths

LineKey(line) ==
    IF line.field = "Model name:" THEN "CPU Model"
    ELSE IF line.field = "CPU MHz:" THEN "CPU Clock"
    ELSE CacheKey[line.field]

LineValue(line) ==
    IF line.field = "CPU MHz:" THEN FormatMHz(line.value) ELSE line.value

\* The last line of the output that fills the key of line i.
LastFor(lines, i) ==
    CHOOSE j \in DOMAIN lines :
        /\ WellFormed(lines[j]) /\ LineKey(lines[j]) = LineKey(lines[i])
        /\ \A m \in DOMAIN lines :
             (WellFormed(lines[m]) /\ LineKey(lines[m]) = LineKey(lines[i])) => m <= j

\* C8: once lscpu has been read, every fact whose line in the output is
\* well-formed is in the table with the value parsed from that output,
\* whatever other line of the same output could not be parsed.
C8_ParseIsolation ==
    (pc # "lscpu" /\ lscpu_seen.ok) =>
        \A i \in DOMAIN lscpu_seen.lines :
            WellFormed(lscpu_seen.lines[i]) =>
                /\ Has(LineKey(lscpu_seen.lines[i]), info)
                /\ info[LineKey(lscpu_seen.lines[i])] =
                       LineValue(lscpu_seen.lines[LastFor(lscpu_seen.lines, i)])

LscpuSetModel ==
    Has("CPU Model", writers) /\ "lscpu" \in Range(writers["CPU Model"])

\* C10: the OS API fallback runs exactly when lscpu left "CPU Model" unset,
\* never after lscpu set it, and fills no clock or cache key.
C10_FallbackOnEmpty ==
    pc # "lscpu" =>
        /\ ("platform.processor" \in invoked) <=> ~LscpuSetModel
        /\ \A k \in DOMAIN writers :
             "platform.processor" \in Range(writers[k]) => k = "CPU Model"

(***************************************************************************)
(* Properties of parse_result_dir, load_hyperfine_results and main.        *)
(***************************************************************************)
AllDigits(s, a, b) == \A i \in a..b : s[i] \in Digits

\* The whole of s is digits, a unit, "_", digits, "_" and a non-empty rest
\* without a line break; i is the place of the unit, j of the second "_".
WholeMatchAt(s, i, j) ==
    /\ 2 <= i /\ i + 2 < j /\ j < Len(s)
    /\ AllDigits(s, 1, i - 1)
    /\ s[i] \in Units
    /\ s[i + 1] = "_"
    /\ AllDigits(s, i + 2, j - 1)
    /\ s[j] = "_"
    /\ \A m \in (j + 1)..Len(s) : s[m] # "\n"

WholeMatch(s) == \E i \in 1..Len(s), j \in 1..Len(s) : WholeMatchAt(s, i, j)

\* ^(\d+[dmy])_(\d+)_(.+)$ on the whole name; "$" also stands before a
\* final line break.
MatchesGrammar(s) ==
    \/ WholeMatch(s)
    \/ s # << >> /\ s[Len(s)] = "\n" /\ WholeMatch(SubSeq(s, 1, Len(s) - 1))

\* C5: parse_result_dir yields a triple exactly when the whole name matches
\* the grammar, and (None, None, None) otherwise.
C5_DecodeIffGrammar ==
    pc = "parsed" => ((parsed # NoMatch) <=> MatchesGrammar(name_in))

\* C3: whatever the measurement files hold, the loader returns a number or
\* None, and main builds the record of the directory without aborting.
C3_LoaderDegrades ==
    /\ loaded.mpirun.t \in {"none", "num"}
    /\ loaded.troute.t \in {"none", "num"}
    /\ root = "dir" => pc # "crashed"

Present(v) == v.t = "num"

\* C4: in the record just built a runtime is "N/A" exactly when the loader
\* returned None for it and the loaded number rounded otherwise (0
\* included); the total is the rounded sum when both are present.
C4_MarkerIffMissing ==
    (results # << >> /\ pc # "crashed"
        /\ loaded.mpirun.t # "str" /\ loaded.troute.t # "str") =>
        LET r == results[Len(results)]
            m == loaded.mpirun
            t == loaded.troute
        IN  /\ r.MPI = IF Present(m) THEN Num(Round3(m.n)) ELSE NA
            /\ r.Troute = IF Present(t) THEN Num(Round3(t.n)) ELSE NA
            /\ r.Total = IF Present(m) /\ Present(t)
                         THEN Num(Round3(m.n + t.n)) ELSE NA

Count(rows, r) == Cardinality({ i \in DOMAIN rows : rows[i] = r })

\* a <= b for str, stated without StrLess: equal, a proper prefix, or the
\* smaller code point at the first place where they differ.
LexLeq(a, b) ==
    \/ a = b
    \/ Len(a) < Len(b) /\ SubSeq(b, 1, Len(a)) = a
    \/ \E i \in 1..Len(a) :
         /\ i <= Len(b)
         /\ SubSeq(a, 1, i - 1) = SubSeq(b, 1, i - 1)
         /\ Ord[a[i]] < Ord[b[i]]

KeyLeq(a, b) ==
    \/ a.Operations < b.Operations
    \/ a.Operations = b.Operations /\ LexLeq(a.Duration, b.Duration)

Keys(rows) == [i \in DOMAIN rows |-> << rows[i].Operations, rows[i].Duration >>]

\* C6: the rows handed to the report and the CSV are a permutation of the
\* collected records, ascending by (Operations as an integer, Duration as a
\* string).
C6_SortedPermutation ==
    pc \in {"fingerprint", "report", "csv", "exit"} /\ results # << >> =>
        /\ Len(df) = Len(results)
        /\ \A i \in DOMAIN results : Count(df, results[i]) = Count(results, results[i])
        /\ \A i \in DOMAIN df : \A j \in DOMAIN df : i < j => KeyLeq(df[i], df[j])
        /\ csv.exists => csv.rows = df

\* Operations [500, 1000, 500] with durations ["10d", "5d", "30d"] were
\* collected and written as (500, "10d"), (500, "30d"), (1000, "5d").
C6_Witness ==
    /\ pc = "exit"
    /\ csv.exists
    /\ Keys(results) = << << 500, << "1", "0", "d" >> >>,
                          << 1000, << "5", "d" >> >>,
                          << 500, << "3", "0", "d" >> >> >>
    /\ Keys(csv.rows) = << << 500, << "1", "0", "d" >> >>,
                           << 500, << "3", "0", "d" >> >>,
                           << 1000, << "5", "d" >> >> >>

Qualifying == { i \in DOMAIN listing : listing[i].is_dir /\ MatchesGrammar(listing[i].name) }

\* C7: a run ends cleanly; with the root missing or without a qualifying
\* subdirectory it ends after one message, with no fingerprinting and no
\* CSV; otherwise it ends with the report printed and the CSV written,
\* fingerprinting after the records are known and before the CSV.
C7_ExitBehaviour ==
    /\ pc # "crashed"
    /\ pc = "exit" =>
         IF root = "missing" \/ Qualifying = {}
         THEN Len(out) = 1 /\ "get_system_info" \notin Range(out) /\ ~csv.exists
         ELSE "print: report" \in Range(out) /\ csv.exists
    /\ "get_system_info" \in Range(out) => results # << >>
    /\ csv.exists => "get_system_info" \in Range(out)

====
